---- MODULE Spec2Model ----
(***************************************************************************)
(* ffx.py: a YAML configuration is turned into an ffmpeg -vf filter chain  *)
(* by nine stage builders called in a fixed order, each result going       *)
(* through add_filter, and ffmpeg is then run once on the joined chain.    *)
(*                                                                         *)
(* A Python string is a sequence of atoms.  The atoms "," and " " are the  *)
(* separator and the whitespace character; every other atom is a piece of  *)
(* text holding neither (a literal of an f-string, a digit, a letter).     *)
(* A Python dict is a sequence of <<key, value>> pairs in insertion order. *)
(***************************************************************************)
EXTENDS Integers, Sequences, FiniteSets, TLC

\* ------------------------------------------------------------- bounds
\* deblur.passes ranges over 0..MaxPasses
MaxPasses == 3
\* an entry of custom_filters has at most MaxStrLen characters
MaxStrLen == 3
\* custom_filters has at most MaxCustom entries
MaxCustom == 2

\* ------------------------------------------------------ Python values
PyNone == [ty |-> "none"]
PyBool(b) == [ty |-> "bool", b |-> b]
PyInt(n) == [ty |-> "int", n |-> n]
\* a float, held in tenths: PyFloat(15) is 1.5
PyFloat(t) == [ty |-> "float", t |-> t]
PyStr(s) == [ty |-> "str", s |-> s]
PyList(l) == [ty |-> "list", l |-> l]
PyDict(d) == [ty |-> "dict", d |-> d]
\* the outcome of a call that raised instead of returning
Raised == [ty |-> "raise"]

IsDict(v) == v.ty = "dict"
IsNumber(v) == v.ty \in {"bool", "int", "float"}

\* bool(v)
Truthy(v) ==
  CASE v.ty = "none" -> FALSE
    [] v.ty = "bool" -> v.b
    [] v.ty = "int" -> v.n # 0
    [] v.ty = "float" -> v.t # 0
    [] v.ty = "str" -> Len(v.s) > 0
    [] v.ty = "list" -> Len(v.l) > 0
    [] v.ty = "dict" -> Len(v.d) > 0

\* the numeric value of a number, in tenths
Tenths(v) ==
  CASE v.ty = "bool" -> IF v.b THEN 10 ELSE 0
    [] v.ty = "int" -> 10 * v.n
    [] v.ty = "float" -> v.t

\* a == b: numbers compare by value across bool, int and float
PyEq(a, b) ==
  IF IsNumber(a) /\ IsNumber(b) THEN Tenths(a) = Tenths(b)
  ELSE a.ty = b.ty /\ a = b

\* d.get(k, default) on a dict d
HasKey(d, k) == \E i \in 1..Len(d.d) : d.d[i][1] = k
Get(d, k, default) ==
  IF HasKey(d, k)
  THEN d.d[CHOOSE i \in 1..Len(d.d) : d.d[i][1] = k][2]
  ELSE default

EmptyDict == PyDict(<<>>)

\* ------------------------------------------------------------ strings
Whitespace == {" "}
Digit == <<"0", "1", "2", "3", "4", "5", "6", "7", "8", "9">>

RECURSIVE NatStr(_)
NatStr(n) == IF n < 10 THEN <<Digit[n + 1]>> ELSE NatStr(n \div 10) \o <<Digit[(n % 10) + 1]>>

\* str(v), as an f-string field {v} renders it
Format(v) ==
  CASE v.ty = "none" -> <<"None">>
    [] v.ty = "bool" -> IF v.b THEN <<"True">> ELSE <<"False">>
    [] v.ty = "int" -> IF v.n < 0 THEN <<"-">> \o NatStr(0 - v.n) ELSE NatStr(v.n)
    [] v.ty = "float" -> NatStr(v.t \div 10) \o <<".">> \o NatStr(v.t % 10)
    [] v.ty = "str" -> v.s

RECURSIVE lstrip(_)
lstrip(s) == IF s # <<>> /\ Head(s) \in Whitespace THEN lstrip(Tail(s)) ELSE s

RECURSIVE rstrip(_, _)
rstrip(s, chars) ==
  IF s # <<>> /\ s[Len(s)] \in chars THEN rstrip(SubSeq(s, 1, Len(s) - 1), chars) ELSE s

\* s.strip()
strip(s) == rstrip(lstrip(s), Whitespace)

\* sep.join(list)
RECURSIVE join(_, _)
join(sep, list) ==
  IF Len(list) = 0 THEN <<>>
  ELSE IF Len(list) = 1 THEN list[1]
  ELSE list[1] \o sep \o join(sep, Tail(list))

Comma == <<",">>

\* ----------------------------------------------------- filter builders
\* cfg.get(name, {}): Raised when cfg is no dict (an empty file loads as None)
Section(cfg, name) == IF IsDict(cfg) THEN Get(cfg, name, EmptyDict) ELSE Raised

\* c.get("enabled", False) and its like: c must be a dict to have .get
Enabled(c, flag) == Truthy(Get(c, flag, PyBool(FALSE)))

build_eq(cfg) ==
  LET c == Section(cfg, "eq") IN
  IF ~IsDict(c) THEN Raised
  ELSE IF ~Enabled(c, "enabled") THEN PyNone
  ELSE PyStr(<<"eq=", "brightness=">> \o Format(Get(c, "brightness", PyFloat(0)))
             \o <<":", "contrast=">> \o Format(Get(c, "contrast", PyFloat(10)))
             \o <<":", "gamma=">> \o Format(Get(c, "gamma", PyFloat(10)))
             \o <<":", "saturation=">> \o Format(Get(c, "saturation", PyFloat(10))))

build_unsharp(cfg) ==
  LET c == Section(cfg, "sharpen") IN
  IF ~IsDict(c) THEN Raised
  ELSE IF ~Enabled(c, "enabled") THEN PyNone
  ELSE LET m == Get(c, "main", EmptyDict) IN
       IF ~IsDict(m) THEN Raised
       ELSE PyStr(<<"unsharp=">> \o Format(Get(m, "msize_x", PyInt(5)))
                  \o <<":">> \o Format(Get(m, "msize_y", PyInt(5)))
                  \o <<":">> \o Format(Get(m, "amount", PyFloat(6)))
                  \o <<":">> \o Format(Get(m, "msize_x_chroma", PyInt(5)))
                  \o <<":">> \o Format(Get(m, "msize_y_chroma", PyInt(5)))
                  \o <<":">> \o Format(Get(m, "amount_chroma", PyFloat(1))))

\* build_extra_sharpen with extra_enabled defaulting to True
build_extra_sharpen_default_on(cfg) ==
  LET c == Section(cfg, "sharpen") IN
  IF ~IsDict(c) THEN Raised
  ELSE IF ~Truthy(Get(c, "extra_enabled", PyBool(TRUE))) THEN PyNone
  ELSE LET e == Get(c, "extra", EmptyDict) IN
       IF ~IsDict(e) THEN Raised
       ELSE PyStr(<<"unsharp=">> \o Format(Get(e, "msize", PyInt(3)))
                  \o <<":">> \o Format(Get(e, "msize", PyInt(3)))
                  \o <<":">> \o Format(Get(e, "amount", PyFloat(4))))

\* build_extra_sharpen nested under sharpen.enabled
build_extra_sharpen_nested(cfg) ==
  LET c == Section(cfg, "sharpen") IN
  IF ~IsDict(c) THEN Raised
  ELSE IF ~Enabled(c, "enabled") \/ ~Enabled(c, "extra_enabled") THEN PyNone
  ELSE LET e == Get(c, "extra", EmptyDict) IN
       IF ~IsDict(e) THEN Raised
       ELSE PyStr(<<"unsharp=">> \o Format(Get(e, "msize", PyInt(3)))
                  \o <<":">> \o Format(Get(e, "msize", PyInt(3)))
                  \o <<":">> \o Format(Get(e, "amount", PyFloat(4))))

build_extra_sharpen(cfg) ==
  LET c == Section(cfg, "sharpen") IN
  IF ~IsDict(c) THEN Raised
  ELSE IF ~Enabled(c, "extra_enabled") THEN PyNone
  ELSE LET e == Get(c, "extra", EmptyDict) IN
       IF ~IsDict(e) THEN Raised
       ELSE PyStr(<<"unsharp=">> \o Format(Get(e, "msize", PyInt(3)))
                  \o <<":">> \o Format(Get(e, "msize", PyInt(3)))
                  \o <<":">> \o Format(Get(e, "amount", PyFloat(4))))

\* the default deblur.kernel, "-1 -1 -1 -1 9 -1 -1 -1 -1"
DefaultKernel ==
  PyStr(<<"-1", " ", "-1", " ", "-1", " ", "-1", " ", "9", " ",
          "-1", " ", "-1", " ", "-1", " ", "-1">>)

\* range(passes) is defined on int and bool only; its length
RangeOk(passes) == passes.ty \in {"int", "bool"}
\* range(passes + 1)
RangeLenOneMore(passes) == IF Tenths(passes) > 0 THEN (Tenths(passes) \div 10) + 1 ELSE 1
RangeLen(passes) == IF Tenths(passes) > 0 THEN Tenths(passes) \div 10 ELSE 0

\* chain = []; for _ in range(n): chain.append(item)
Repeat(item, n) == [i \in 1..n |-> item]

\* an unknown deblur.method raising instead of giving nothing
deblur_unknown_raises == Raised

\* line 90: what build_deblur returns for a method it does not know
deblur_unknown == PyNone

build_deblur(cfg) ==
  LET c == Section(cfg, "deblur") IN
  IF ~IsDict(c) THEN Raised
  ELSE IF ~Enabled(c, "enabled") THEN PyNone
  ELSE LET method == Get(c, "method", PyStr(<<"convolution">>)) IN
       IF PyEq(method, PyStr(<<"convolution">>))
       THEN PyStr(<<"convolution=", "'">> \o Format(Get(c, "kernel", DefaultKernel)) \o <<"'">>)
       ELSE IF PyEq(method, PyStr(<<"unsharp_multi">>))
       THEN LET passes == Get(c, "passes", PyInt(2))
                amount == Get(c, "amount", PyFloat(10))
                msize == Get(c, "msize", PyInt(5))
            IN IF ~RangeOk(passes) THEN Raised
               ELSE PyStr(join(Comma, Repeat(<<"unsharp=">> \o Format(msize) \o <<":">>
                                              \o Format(msize) \o <<":">> \o Format(amount),
                                              RangeLen(passes))))
       ELSE deblur_unknown

build_denoise(cfg) ==
  LET c == Section(cfg, "denoise") IN
  IF ~IsDict(c) THEN Raised
  ELSE IF ~Enabled(c, "enabled") THEN PyNone
  ELSE PyStr(<<"hqdn3d=">> \o Format(Get(c, "luma", PyFloat(20)))
             \o <<":">> \o Format(Get(c, "chroma", PyFloat(15)))
             \o <<":">> \o Format(Get(c, "time", PyFloat(30)))
             \o <<":">> \o Format(Get(c, "chroma_time", PyFloat(0))))

build_blur(cfg) ==
  LET c == Section(cfg, "blur") IN
  IF ~IsDict(c) THEN Raised
  ELSE IF ~Enabled(c, "enabled") THEN PyNone
  ELSE PyStr(<<"boxblur=">> \o Format(Get(c, "radius", PyInt(2))))

build_grain(cfg) ==
  LET c == Section(cfg, "grain") IN
  IF ~IsDict(c) THEN Raised
  ELSE IF ~Enabled(c, "enabled") THEN PyNone
  ELSE PyStr(<<"noise=", "alls=">> \o Format(Get(c, "strength", PyInt(4)))
             \o <<":", "allf=">> \o Format(Get(c, "frequency", PyStr(<<"p">>))))

\* build_color_channel with the identity test passing on any one channel
build_color_channel_any(cfg) ==
  LET cc == Section(cfg, "color_channels") IN
  IF ~IsDict(cc) THEN Raised
  ELSE LET r == Get(cc, "red", PyFloat(10))
           g == Get(cc, "green", PyFloat(10))
           b == Get(cc, "blue", PyFloat(10))
       IN IF PyEq(r, PyFloat(10)) \/ PyEq(g, PyFloat(10)) \/ PyEq(b, PyFloat(10))
          THEN PyNone
          ELSE PyStr(<<"eq=", "red_mul=">> \o Format(r) \o <<":", "green_mul=">> \o Format(g)
                     \o <<":", "blue_mul=">> \o Format(b))

build_color_channel(cfg) ==
  LET cc == Section(cfg, "color_channels") IN
  IF ~IsDict(cc) THEN Raised
  ELSE LET r == Get(cc, "red", PyFloat(10))
           g == Get(cc, "green", PyFloat(10))
           b == Get(cc, "blue", PyFloat(10))
       IN IF PyEq(r, PyFloat(10)) /\ PyEq(g, PyFloat(10)) /\ PyEq(b, PyFloat(10))
          THEN PyNone
          ELSE PyStr(<<"eq=", "red_mul=">> \o Format(r) \o <<":", "green_mul=">> \o Format(g)
                     \o <<":", "blue_mul=">> \o Format(b))

build_custom(cfg) ==
  LET c == IF IsDict(cfg) THEN Get(cfg, "custom_filters", PyList(<<>>)) ELSE Raised IN
  IF c.ty = "raise" THEN Raised
  ELSE IF ~Truthy(c) THEN PyNone
  ELSE IF c.ty = "list" /\ \A i \in 1..Len(c.l) : c.l[i].ty = "str"
  THEN PyStr(join(Comma, [i \in 1..Len(c.l) |-> c.l[i].s]))
  ELSE IF c.ty = "str"
  THEN PyStr(join(Comma, [i \in 1..Len(c.s) |-> <<c.s[i]>>]))
  ELSE IF c.ty = "dict"
  THEN PyStr(join(Comma, [i \in 1..Len(c.d) |-> <<c.d[i][1]>>]))
  ELSE Raised

\* add_filter(filters, frag): the list afterwards
add_filter(filters, frag) ==
  IF ~Truthy(frag) THEN filters
  ELSE LET f == rstrip(strip(frag.s), {","}) IN
       IF f # <<>> THEN Append(filters, f) ELSE filters

\* ---------------------------------------------------------------- main
\* main calling build_denoise before build_deblur
CatalogSwapped ==
  <<"eq", "color_channel", "unsharp", "extra_sharpen", "denoise",
    "deblur", "blur", "grain", "custom">>

\* the order in which main calls the builders
Catalog ==
  <<"eq", "color_channel", "unsharp", "extra_sharpen", "deblur",
    "denoise", "blur", "grain", "custom">>

Builder(name, cfg) ==
  CASE name = "eq" -> build_eq(cfg)
    [] name = "color_channel" -> build_color_channel(cfg)
    [] name = "unsharp" -> build_unsharp(cfg)
    [] name = "extra_sharpen" -> build_extra_sharpen(cfg)
    [] name = "deblur" -> build_deblur(cfg)
    [] name = "denoise" -> build_denoise(cfg)
    [] name = "blur" -> build_blur(cfg)
    [] name = "grain" -> build_grain(cfg)
    [] name = "custom" -> build_custom(cfg)

\* build_custom taking custom_filters out of the configuration (cfg.pop)
RemoveKey(d, k) == PyDict(SelectSeq(d.d, LAMBDA p : p[1] # k))
AfterCallPops(name, cfg) ==
  IF name = "custom" /\ IsDict(cfg) THEN RemoveKey(cfg, "custom_filters") ELSE cfg

\* the configuration after a builder ran: the builders only read it, through .get
AfterCall(name, cfg) == cfg

\* shlex.quote(s)
SafeAtom(a) == a \notin {" ", "'", "\""}
RECURSIVE EscapeQuotes(_)
EscapeQuotes(s) ==
  IF s = <<>> THEN <<>>
  ELSE (IF Head(s) = "'" THEN <<"'", "\"", "'", "\"", "'">> ELSE <<Head(s)>>)
       \o EscapeQuotes(Tail(s))
quote(s) ==
  IF s = <<>> THEN <<"'", "'">>
  ELSE IF \A i \in 1..Len(s) : SafeAtom(s[i]) THEN s
  ELSE <<"'">> \o EscapeQuotes(s) \o <<"'">>

\* the ffmpeg command line for a chain; the two paths are argv[1] and argv[2]
Command(chain) ==
  <<<<"ffmpeg">>, <<"-i">>, <<"argv1">>, <<"-vf">>, chain, <<"-c:a">>, <<"copy">>, <<"argv2">>>>

\* the file ffx.yaml beside the script does not exist
Missing == [ty |-> "missing"]

VARIABLES
  argc,          \* len(sys.argv)
  file,          \* what yaml.safe_load gives for ffx.yaml, or Missing
  pc,            \* where main is
  cfg,           \* main's cfg
  filters,       \* main's filters
  called,        \* how many builders main has called
  frag,          \* what the last builder returned, or Raised
  filter_chain,  \* main's filter_chain
  stdout,        \* the lines printed
  runs,          \* how many times ffmpeg was run
  exc            \* what ended the run: "" while running or after success

vars == <<argc, file, pc, cfg, filters, called, frag, filter_chain, stdout, runs, exc>>

\* main without the sys.exit(1) after the usage line
CheckArgsNoExit ==
  /\ pc = "start"
  /\ pc' = "load"
  /\ stdout' = IF argc # 3 THEN Append(stdout, <<"Usage: ffx.py <input> <output>">>) ELSE stdout
  /\ UNCHANGED <<argc, file, cfg, filters, called, frag, filter_chain, runs, exc>>

\* lines 147-149
CheckArgs ==
  /\ pc = "start"
  /\ IF argc # 3
     THEN /\ stdout' = Append(stdout, <<"Usage: ffx.py <input> <output>">>)
          /\ pc' = "exit"
          /\ exc' = "SystemExit"
     ELSE /\ pc' = "load"
          /\ UNCHANGED <<stdout, exc>>
  /\ UNCHANGED <<argc, file, cfg, filters, called, frag, filter_chain, runs>>

\* lines 151-157
LoadConfig ==
  /\ pc = "load"
  /\ IF file.ty = "missing"
     THEN /\ pc' = "raised"
          /\ exc' = "FileNotFoundError"
          /\ UNCHANGED <<cfg, filters>>
     ELSE /\ cfg' = file
          /\ filters' = <<>>
          /\ pc' = "build"
          /\ UNCHANGED exc
  /\ UNCHANGED <<argc, file, called, frag, filter_chain, stdout, runs>>

\* one of lines 159-167: add_filter(filters, build_X(cfg))
BuildStage ==
  /\ pc = "build"
  /\ LET name == Catalog[called + 1]
         r == Builder(name, cfg)
     IN /\ frag' = r
        /\ called' = called + 1
        /\ cfg' = AfterCall(name, cfg)
        /\ IF r.ty = "raise"
           THEN /\ pc' = "raised"
                /\ exc' = "BuildError"
                /\ UNCHANGED filters
           ELSE /\ filters' = add_filter(filters, r)
                /\ pc' = IF called + 1 = Len(Catalog) THEN "join" ELSE "build"
                /\ UNCHANGED exc
  /\ UNCHANGED <<argc, file, filter_chain, stdout, runs>>

\* line 169
JoinChain ==
  /\ pc = "join"
  /\ filter_chain' = join(Comma, filters)
  /\ pc' = "print"
  /\ UNCHANGED <<argc, file, cfg, filters, called, frag, stdout, runs, exc>>

\* lines 171-173
PrintChain ==
  /\ pc = "print"
  /\ stdout' = stdout \o <<<<"Using filter chain:">>, filter_chain, <<>>>>
  /\ pc' = "command"
  /\ UNCHANGED <<argc, file, cfg, filters, called, frag, filter_chain, runs, exc>>

\* lines 175-185; the printed heading stands for "Executing FFmpeg" and its ellipsis
PrintCommand ==
  /\ pc = "command"
  /\ LET cmd == Command(filter_chain) IN
     stdout' = stdout \o <<<<"Executing FFmpeg">>,
                          join(<<" ">>, [i \in 1..Len(cmd) |-> quote(cmd[i])]),
                          <<>>>>
  /\ pc' = "run"
  /\ UNCHANGED <<argc, file, cfg, filters, called, frag, filter_chain, runs, exc>>

\* line 187: subprocess.run(cmd, check=True); ffmpeg exits zero or not
RunFFmpeg ==
  /\ pc = "run"
  /\ runs' = runs + 1
  /\ \E status \in {0, 1} :
       IF status = 0
       THEN pc' = "done" /\ UNCHANGED exc
       ELSE pc' = "raised" /\ exc' = "CalledProcessError"
  /\ UNCHANGED <<argc, file, cfg, filters, called, frag, filter_chain, stdout>>

Next ==
  \/ CheckArgs
  \/ LoadConfig
  \/ BuildStage
  \/ JoinChain
  \/ PrintChain
  \/ PrintCommand
  \/ RunFFmpeg

\* ------------------------------------------------ the configurations
\* a section, or a key, that the YAML file does not have
Absent == [ty |-> "absent"]
Present(p) == p[2].ty # "absent"

\* the dict of the keys that are present, in the order written
DictOf(pairs) == PyDict(SelectSeq(pairs, Present))

\* the configuration with the given sections, written in the order of the catalog
ToCfg(r) ==
  DictOf(<<<<"eq", r.eq>>, <<"color_channels", r.cc>>, <<"sharpen", r.sharpen>>,
           <<"deblur", r.deblur>>, <<"denoise", r.denoise>>, <<"blur", r.blur>>,
           <<"grain", r.grain>>, <<"custom_filters", r.custom>>>>)

\* the same configuration with its top-level keys written in the opposite order
Reverse(s) == [i \in 1..Len(s) |-> s[Len(s) + 1 - i]]
ReverseKeys(c) == PyDict(Reverse(c.d))

On == <<"enabled", PyBool(TRUE)>>
Off == <<"enabled", PyBool(FALSE)>>
EnabledOnly == PyDict(<<On>>)

\* every subset of the stages, each with its default parameters
SubsetSpecs ==
  [eq : {Absent, EnabledOnly},
   cc : {Absent, PyDict(<<<<"red", PyFloat(15)>>>>)},
   sharpen : {Absent, EnabledOnly, PyDict(<<<<"extra_enabled", PyBool(TRUE)>>>>),
              PyDict(<<On, <<"extra_enabled", PyBool(TRUE)>>>>)},
   deblur : {Absent, EnabledOnly, PyDict(<<On, <<"method", PyStr(<<"unsharp_multi">>)>>>>)},
   denoise : {Absent, EnabledOnly},
   blur : {Absent, EnabledOnly},
   grain : {Absent, EnabledOnly},
   custom : {Absent, PyList(<<PyStr(<<"x">>), PyStr(<<"y">>)>>)}]

\* the two surroundings in which one section is varied: nothing else, everything else
NoneBase ==
  [eq |-> Absent, cc |-> Absent, sharpen |-> Absent, deblur |-> Absent,
   denoise |-> Absent, blur |-> Absent, grain |-> Absent, custom |-> Absent]
AllBase ==
  [eq |-> EnabledOnly, cc |-> PyDict(<<<<"red", PyFloat(15)>>>>),
   sharpen |-> PyDict(<<On, <<"extra_enabled", PyBool(TRUE)>>>>),
   deblur |-> EnabledOnly, denoise |-> EnabledOnly, blur |-> EnabledOnly,
   grain |-> EnabledOnly, custom |-> PyList(<<PyStr(<<"x">>)>>)]
Bases == {NoneBase, AllBase}

EqOpts ==
  {PyDict(<<>>), PyDict(<<Off>>), PyDict(<<<<"enabled", PyInt(0)>>>>),
   PyDict(<<<<"enabled", PyInt(1)>>>>),
   PyDict(<<<<"brightness", PyFloat(5)>>>>),
   PyDict(<<On, <<"brightness", PyFloat(5)>>, <<"contrast", PyInt(2)>>>>)}

ChanVals == {Absent, PyFloat(10), PyInt(1), PyFloat(15)}
CcOpts ==
  {DictOf(<<<<"red", r>>, <<"green", g>>, <<"blue", b>>>>) :
     r \in ChanVals, g \in ChanVals, b \in ChanVals}
  \cup {PyDict(<<<<"red", PyBool(TRUE)>>>>), PyDict(<<<<"green", PyNone>>>>),
        PyDict(<<<<"blue", PyStr(<<"1", ".", "0">>)>>>>)}

FlagVals == {Absent, PyBool(FALSE), PyBool(TRUE)}
SharpenOpts ==
  {DictOf(<<<<"enabled", e>>, <<"extra_enabled", x>>, <<"main", m>>, <<"extra", k>>>>) :
     e \in FlagVals, x \in FlagVals,
     m \in {Absent, PyDict(<<<<"msize_x", PyInt(7)>>, <<"amount", PyFloat(10)>>>>)},
     k \in {Absent, PyDict(<<<<"msize", PyInt(5)>>, <<"amount", PyFloat(5)>>>>)}}

Methods ==
  {Absent, PyStr(<<"convolution">>), PyStr(<<"unsharp_multi">>), PyStr(<<"unknown">>), PyNone}
PassesVals == {Absent} \cup {PyInt(n) : n \in -1..MaxPasses}
DeblurOpts ==
  {DictOf(<<<<"enabled", e>>, <<"method", m>>, <<"passes", p>>>> \o rest) :
     e \in {PyBool(FALSE), PyBool(TRUE)}, m \in Methods, p \in PassesVals,
     rest \in {<<>>, <<<<"amount", PyFloat(15)>>, <<"msize", PyInt(7)>>,
                      <<"kernel", PyStr(<<"0", " ", "1", " ", "0">>)>>>>}}

DenoiseOpts ==
  {PyDict(<<Off>>), PyDict(<<On, <<"luma", PyFloat(40)>>, <<"chroma", PyInt(3)>>>>)}
BlurOpts == {PyDict(<<On, <<"radius", PyInt(5)>>>>)}
GrainOpts ==
  {PyDict(<<On, <<"strength", PyInt(8)>>, <<"frequency", PyStr(<<"t">>)>>>>)}

\* custom_filters: one entry of up to MaxStrLen characters, or up to MaxCustom
\* entries of at most one character
Alphabet == {"x", ",", " "}
Strs(n) == UNION {[1..k -> Alphabet] : k \in 0..n}
CustomLists ==
  {<<PyStr(s)>> : s \in Strs(MaxStrLen)}
  \cup UNION {[1..k -> {PyStr(s) : s \in Strs(1)}] : k \in 0..MaxCustom}
CustomOpts == {PyList(l) : l \in CustomLists}

\* configurations with a section or a value of the wrong type
MalformedSpecs ==
  {[AllBase EXCEPT !.eq = PyNone], [AllBase EXCEPT !.cc = PyNone],
   [AllBase EXCEPT !.sharpen = PyDict(<<On, <<"main", PyNone>>>>)],
   [AllBase EXCEPT !.sharpen = PyDict(<<<<"extra_enabled", PyBool(TRUE)>>, <<"extra", PyInt(3)>>>>)],
   [AllBase EXCEPT !.deblur = PyDict(<<On, <<"method", PyStr(<<"unsharp_multi">>)>>,
                                        <<"passes", PyFloat(20)>>>>)],
   [AllBase EXCEPT !.deblur = PyNone], [AllBase EXCEPT !.denoise = PyStr(<<"x">>)],
   [AllBase EXCEPT !.blur = PyBool(TRUE)], [AllBase EXCEPT !.grain = PyList(<<>>)],
   [AllBase EXCEPT !.custom = PyList(<<PyStr(<<"x">>), PyInt(1)>>)],
   [AllBase EXCEPT !.custom = PyInt(5)], [NoneBase EXCEPT !.custom = PyStr(<<"x", "x">>)]}

Specs ==
  SubsetSpecs
  \cup {[b EXCEPT !.eq = v] : b \in Bases, v \in EqOpts}
  \cup {[b EXCEPT !.cc = v] : b \in Bases, v \in CcOpts}
  \cup {[b EXCEPT !.sharpen = v] : b \in Bases, v \in SharpenOpts}
  \cup {[b EXCEPT !.deblur = v] : b \in Bases, v \in DeblurOpts}
  \cup {[b EXCEPT !.denoise = v] : b \in Bases, v \in DenoiseOpts}
  \cup {[b EXCEPT !.blur = v] : b \in Bases, v \in BlurOpts}
  \cup {[b EXCEPT !.grain = v] : b \in Bases, v \in GrainOpts}
  \cup {[b EXCEPT !.custom = v] : b \in Bases, v \in CustomOpts}
  \cup MalformedSpecs

\* what ffx.yaml can hold: a configuration with its keys in either order, or nothing
Files ==
  {ToCfg(r) : r \in Specs} \cup {ReverseKeys(ToCfg(r)) : r \in SubsetSpecs} \cup {PyNone, Missing}

Argcs == {2, 3, 4}

Init ==
  /\ argc \in Argcs
  /\ file \in Files
  /\ pc = "start"
  /\ cfg = PyNone
  /\ filters = <<>>
  /\ called = 0
  /\ frag = PyNone
  /\ filter_chain = <<>>
  /\ stdout = <<>>
  /\ runs = 0
  /\ exc = ""

Spec == Init /\ [][Next]_vars

\* ---------------------------------------------------------- properties
\* main got as far as joining the filters into a chain
ChainBuilt == pc \in {"print", "command", "run", "done"} \/ exc = "CalledProcessError"

\* the builder main called last, whose result is frag
LastCalled == IF called = 0 THEN "" ELSE Catalog[called]

\* a stage expression as it is kept: trimmed, and dropped when absent or empty
Kept(f) == add_filter(<<>>, f)

\* the stage expressions of a configuration, in the order of the catalog: equalize,
\* color-channel-mix, sharpen-main, sharpen-extra, deblur, denoise, blur, grain, custom
BeforeDeblur(c) ==
  Kept(build_eq(c)) \o Kept(build_color_channel(c)) \o Kept(build_unsharp(c))
  \o Kept(build_extra_sharpen(c))
AfterDeblur(c) ==
  Kept(build_denoise(c)) \o Kept(build_blur(c)) \o Kept(build_grain(c)) \o Kept(build_custom(c))
InCatalogOrder(c) == BeforeDeblur(c) \o Kept(build_deblur(c)) \o AfterDeblur(c)

\* C1: the non-absent stage expressions are in the chain in the order of the catalog,
\* whatever the configuration holds and in whatever order its keys are written
C1_StageOrder ==
  ChainBuilt =>
    /\ filters = InCatalogOrder(cfg)
    /\ filters = InCatalogOrder(ReverseKeys(cfg))
    /\ filter_chain = join(Comma, filters)

\* all nine stages present, from a configuration written with custom_filters first
C1_Witness ==
  /\ pc = "done"
  /\ Len(filters) = Len(Catalog)
  /\ cfg.d[1][1] = "custom_filters"
  /\ filters[1][1] = "eq=" /\ filters[Len(filters)] = <<"x", ",", "y">>

\* C2: the chain never starts with a separator, never ends with one and never has
\* two in a row
C2_NoStraySeparator ==
  ChainBuilt =>
    \/ filter_chain = <<>>
    \/ /\ filter_chain[1] # ","
       /\ filter_chain[Len(filter_chain)] # ","
       /\ \A i \in 1..(Len(filter_chain) - 1) :
            ~(filter_chain[i] = "," /\ filter_chain[i + 1] = ",")

\* an element of the filter list that needs no more trimming
Normalized(e) ==
  /\ e # <<>>
  /\ e[1] \notin Whitespace
  /\ e[Len(e)] \notin Whitespace
  /\ e[Len(e)] # ","

\* C3: a stage expression with trailing whitespace or a trailing comma is appended
\* normalized, with no surrounding whitespace and no trailing comma; one that is empty
\* after trimming is not appended, so that the joined chain gets no separator from it
C3_Trimming ==
  [][(pc = "build" /\ frag'.ty = "str") =>
       LET s == frag'.s IN
       /\ (s # <<>> /\ s[Len(s)] \in Whitespace \cup {","} /\ filters' # filters) =>
             /\ filters' = Append(filters, filters'[Len(filters')])
             /\ Normalized(filters'[Len(filters')])
       /\ (rstrip(strip(s), {","}) = <<>>) =>
             /\ filters' = filters
             /\ join(Comma, filters') = join(Comma, filters)]_vars

\* a flag of a section is false, or the flag or its section is absent
IsFalse(v) == v.ty = "bool" /\ ~v.b
FlagOff(c, section, flag) ==
  \/ ~HasKey(c, section)
  \/ /\ IsDict(Get(c, section, EmptyDict))
     /\ IsFalse(Get(Get(c, section, EmptyDict), flag, PyBool(FALSE)))

\* a number equal to 1.0
IsOne(v) == IsNumber(v) /\ Tenths(v) = 10

\* a channel multiplier as supplied, 1.0 when it or the color_channels section is absent
Channel(c, k) == Get(Get(c, "color_channels", EmptyDict), k, PyFloat(10))
IdentityChannels(c) ==
  /\ IsDict(Get(c, "color_channels", EmptyDict))
  /\ \A k \in {"red", "green", "blue"} : IsOne(Channel(c, k))

NoCustom(c) ==
  \/ ~HasKey(c, "custom_filters")
  \/ Get(c, "custom_filters", PyNone).ty = "list" /\ Get(c, "custom_filters", PyNone).l = <<>>

AllDisabled(c) ==
  /\ IsDict(c)
  /\ \A section \in {"eq", "sharpen", "deblur", "denoise", "blur", "grain"} :
       FlagOff(c, section, "enabled")
  /\ FlagOff(c, "sharpen", "extra_enabled")
  /\ IdentityChannels(c)
  /\ NoCustom(c)

C5_ColorChannel ==
  (LastCalled = "color_channel" /\ frag.ty # "raise") =>
    IF IdentityChannels(cfg)
    THEN frag.ty = "none"
    ELSE /\ frag.ty = "str"
         /\ frag.s = <<"eq=", "red_mul=">> \o Format(Channel(cfg, "red"))
                     \o <<":", "green_mul=">> \o Format(Channel(cfg, "green"))
                     \o <<":", "blue_mul=">> \o Format(Channel(cfg, "blue"))

\* eq is not enabled, red is 1 and green is 1.5: the stage is there
C5_Witness ==
  /\ LastCalled = "color_channel"
  /\ ~HasKey(cfg, "eq")
  /\ IsOne(Channel(cfg, "red")) /\ Channel(cfg, "green") = PyFloat(15)
  /\ frag.ty = "str"
  /\ filters = <<frag.s>>

\* the deblur section asks for the multi-pass method, with a number of passes
DeblurSection(c) == Get(c, "deblur", EmptyDict)
MultiPass(c) ==
  /\ IsDict(c) /\ IsDict(DeblurSection(c))
  /\ Truthy(Get(DeblurSection(c), "enabled", PyBool(FALSE)))
  /\ Get(DeblurSection(c), "method", PyNone) = PyStr(<<"unsharp_multi">>)
  /\ Get(DeblurSection(c), "passes", PyInt(2)).ty = "int"
  /\ Get(DeblurSection(c), "passes", PyInt(2)).n >= 0
Passes(c) == Get(DeblurSection(c), "passes", PyInt(2)).n

\* unsharp=M:M:A, with msize 5 and amount 1.0 when not given
OnePass(c) ==
  <<"unsharp=">> \o Format(Get(DeblurSection(c), "msize", PyInt(5)))
  \o <<":">> \o Format(Get(DeblurSection(c), "msize", PyInt(5)))
  \o <<":">> \o Format(Get(DeblurSection(c), "amount", PyFloat(10)))

\* the segments of a string between its separators; the empty string has none
RECURSIVE Segments(_, _)
Segments(s, cur) ==
  IF s = <<>> THEN <<cur>>
  ELSE IF Head(s) = "," THEN <<cur>> \o Segments(Tail(s), <<>>)
  ELSE Segments(Tail(s), Append(cur, Head(s)))
SegmentsOf(s) == IF s = <<>> THEN <<>> ELSE Segments(s, <<>>)

\* C6: with deblur enabled and method unsharp_multi, build_deblur gives exactly
\* `passes` (default 2) times unsharp=M:M:A with one separator between them, and the
\* chain has exactly these segments between sharpen-extra and denoise
C6_MultiPass ==
  /\ (LastCalled = "deblur" /\ MultiPass(cfg)) =>
       /\ frag.ty = "str"
       /\ SegmentsOf(frag.s) = [i \in 1..Passes(cfg) |-> OnePass(cfg)]
  /\ (ChainBuilt /\ MultiPass(cfg)) =>
       filter_chain = join(Comma, BeforeDeblur(cfg)
                                  \o [i \in 1..Passes(cfg) |-> OnePass(cfg)]
                                  \o AfterDeblur(cfg))

\* three passes, with both sharpen stages before them and denoise after them
C6_Witness ==
  /\ pc = "done"
  /\ MultiPass(cfg) /\ Passes(cfg) = 3
  /\ Len(BeforeDeblur(cfg)) = 4 /\ Len(AfterDeblur(cfg)) = 4
  /\ filters[5] = OnePass(cfg) \o Comma \o OnePass(cfg) \o Comma \o OnePass(cfg)

\* deblur is enabled with a method that is neither convolution nor unsharp_multi
UnknownMethod(c) ==
  /\ IsDict(c) /\ IsDict(DeblurSection(c))
  /\ Truthy(Get(DeblurSection(c), "enabled", PyBool(FALSE)))
  /\ HasKey(DeblurSection(c), "method")
  /\ Get(DeblurSection(c), "method", PyNone)
       \notin {PyStr(<<"convolution">>), PyStr(<<"unsharp_multi">>)}

\* the same configuration with deblur.enabled set to false
SetFalse(pairs, k) ==
  [i \in 1..Len(pairs) |-> IF pairs[i][1] = k THEN <<k, PyBool(FALSE)>> ELSE pairs[i]]
DeblurDisabled(c) ==
  PyDict([i \in 1..Len(c.d) |->
            IF c.d[i][1] = "deblur"
            THEN <<"deblur", PyDict(SetFalse(c.d[i][2].d, "enabled"))>>
            ELSE c.d[i]])

\* C7: with deblur enabled and an unknown method, build_deblur raises nothing and
\* contributes nothing, and the chain is that of the configuration with deblur disabled
C7_UnknownMethod ==
  /\ (LastCalled = "deblur" /\ UnknownMethod(cfg)) =>
       /\ frag.ty = "none"
       /\ pc # "raised"
       /\ filters = BeforeDeblur(cfg)
  /\ (ChainBuilt /\ UnknownMethod(cfg)) =>
       /\ filter_chain = join(Comma, InCatalogOrder(DeblurDisabled(cfg)))
       /\ filter_chain = join(Comma, BeforeDeblur(cfg) \o AfterDeblur(cfg))

\* an unknown method among eight stages that are there
C7_Witness ==
  /\ pc = "done"
  /\ UnknownMethod(cfg)
  /\ Get(DeblurSection(cfg), "method", PyNone) = PyStr(<<"unknown">>)
  /\ Len(filters) = 8
  /\ filters[4][1] = "unsharp=" /\ filters[5][1] = "hqdn3d="

\* the chain was printed
ChainPrinted == \E i \in 1..Len(stdout) : stdout[i] = <<"Using filter chain:">>

\* C8: ffmpeg is run at most once, and only after two arguments were given, the
\* configuration was loaded and all nine builders returned; with another number of
\* arguments, without the configuration file or with a builder that raises, the run
\* fails with no chain printed and ffmpeg not run
C8_RunOnce ==
  /\ runs <= 1
  /\ runs = 1 =>
       /\ argc = 3
       /\ file.ty # "missing" /\ cfg = file
       /\ called = Len(Catalog) /\ frag.ty # "raise"
       /\ ChainPrinted
  /\ (argc # 3 /\ pc # "start") => (pc = "exit" /\ exc = "SystemExit")
  /\ (argc = 3 /\ file.ty = "missing" /\ pc \notin {"start", "load"}) =>
       (pc = "raised" /\ exc = "FileNotFoundError")
  /\ frag.ty = "raise" => (pc = "raised" /\ exc = "BuildError")
  /\ exc \in {"SystemExit", "FileNotFoundError", "BuildError"} =>
       /\ runs = 0
       /\ ~ChainPrinted
       /\ filter_chain = <<>>
       /\ ~ENABLED Next

\* a builder raised after three stages were already in the list
C8_Witness ==
  /\ pc = "raised" /\ exc = "BuildError"
  /\ LastCalled = "deblur"
  /\ Len(filters) = 4
  /\ runs = 0 /\ stdout = <<>>

\* a second build of the chain, as main does the first: the builders in turn on the
\* configuration that the ones before them left
RECURSIVE Rebuild(_, _, _)
Rebuild(k, c, acc) ==
  IF k > Len(Catalog) THEN acc
  ELSE Rebuild(k + 1, AfterCall(Catalog[k], c), add_filter(acc, Builder(Catalog[k], c)))

MainOn(c) == Truthy(Get(Get(c, "sharpen", EmptyDict), "enabled", PyBool(FALSE)))
ExtraOn(c) == Truthy(Get(Get(c, "sharpen", EmptyDict), "extra_enabled", PyBool(FALSE)))

\* C10: sharpen-main is there exactly when sharpen.enabled is truthy and sharpen-extra
\* exactly when sharpen.extra_enabled is truthy, each whatever the other switch; when
\* both are there, main is immediately before extra
C10_SharpenGates ==
  /\ (LastCalled = "unsharp" /\ frag.ty # "raise") => (frag.ty = "str" <=> MainOn(cfg))
  /\ (LastCalled = "extra_sharpen" /\ frag.ty # "raise") =>
       (frag.ty = "str" <=> ExtraOn(cfg))
  /\ ChainBuilt =>
       LET before == Kept(build_eq(cfg)) \o Kept(build_color_channel(cfg))
           rest == Kept(build_deblur(cfg)) \o AfterDeblur(cfg)
           main == IF MainOn(cfg) THEN <<build_unsharp(cfg).s>> ELSE <<>>
           extra == IF ExtraOn(cfg) THEN <<build_extra_sharpen(cfg).s>> ELSE <<>>
       IN filters = before \o main \o extra \o rest

\* sharpen.enabled is false and extra_enabled is true: only sharpen-extra is there
C10_Witness ==
  /\ pc = "done"
  /\ HasKey(Get(cfg, "sharpen", EmptyDict), "enabled")
  /\ ~MainOn(cfg) /\ ExtraOn(cfg)
  /\ Len(filters) = 8
  /\ filters[3] = <<"unsharp=", "3", ":", "3", ":", "0", ".", "4">>
====
